---------------------------- MODULE Spec2Model ----------------------------
(***************************************************************************)
(* Model of the rate conversion engine of conversor-tasas (src/main.py):   *)
(* parse_codigo, parse_tasa, a_EA, desde_EA, convertir and the interactive *)
(* loop entrada_interactiva.                                               *)
(*                                                                         *)
(* Text is a sequence of one-character strings.  A rate is a value of the  *)
(* form  a + k * P,  with a and k rationals and P = b^e * cis(pi*t) a      *)
(* power that is irrational or too large to be written out (b a rational   *)
(* greater than 1 that is no perfect power, e a rational exponent, t the   *)
(* angle in half turns), or one of the IEEE specials inf, -inf, nan.  The  *)
(* arithmetic is the real-number arithmetic of the Python expressions,     *)
(* with the double-precision effects that change a result beyond rounding  *)
(* noise: OverflowError of **, absorption of a term that is more than      *)
(* 2^54 times smaller than the other, and the complex result of a          *)
(* fractional power of a negative base.                                    *)
(***************************************************************************)
EXTENDS Integers, Sequences, FiniteSets, TLC

VARIABLES pc, texto, canon, valor, de, a, resultado, vuelta, impreso, seguir

vars == <<pc, texto, canon, valor, de, a, resultado, vuelta, impreso, seguir>>

---------------------------------------------------------------------------
(* Bounds of the model *)

MaxTasaLen == 4        \* longest enumerated rate text
MaxBasura == 3         \* longest enumerated junk code text
CollapseMax == 100000  \* largest numerator/denominator written out

---------------------------------------------------------------------------
(* Rationals <<n, d>>, d > 0, in lowest terms *)

Abs(x) == IF x < 0 THEN -x ELSE x

Min(x, y) == IF x < y THEN x ELSE y

Max(x, y) == IF x < y THEN y ELSE x

RECURSIVE GCD(_, _)
GCD(x, y) == IF y = 0 THEN x ELSE GCD(y, x % y)

RNorm(n, d) ==
    LET s == IF d < 0 THEN -1 ELSE 1
        g == GCD(Abs(n), Abs(d))
    IN  <<(s * n) \div g, (s * d) \div g>>

R(n) == <<n, 1>>

RAdd(x, y) == RNorm(x[1] * y[2] + y[1] * x[2], x[2] * y[2])

RMul(x, y) == RNorm(x[1] * y[1], x[2] * y[2])

RDivInt(x, m) == RNorm(x[1], x[2] * m)

RAbs(x) == <<Abs(x[1]), x[2]>>

IsInt(x) == x[2] = 1

---------------------------------------------------------------------------
(* Powers of rationals in canonical form *)

PowCapMax == 1000000

RECURSIVE PowAcc(_, _, _)
PowAcc(x, k, acc) ==
    IF k = 0 \/ acc > PowCapMax THEN acc
    ELSE PowAcc(x, k - 1, IF acc > PowCapMax \div x THEN PowCapMax + 1 ELSE acc * x)

\* x^k for naturals x and k, saturating at PowCapMax + 1
PowCap(x, k) == IF x <= 1 THEN (IF k = 0 THEN 1 ELSE x) ELSE PowAcc(x, k, 1)

XMax(k) == IF k = 2 THEN 320 ELSE IF k = 3 THEN 47 ELSE IF k = 4 THEN 18 ELSE 10

\* the k-th root of n when n is a perfect k-th power, else 0
IRoot(n, k) ==
    IF k = 1 \/ n = 1 THEN n
    ELSE IF \E x \in 2..Min(n, XMax(k)) : PowCap(x, k) = n
    THEN CHOOSE x \in 2..Min(n, XMax(k)) : PowCap(x, k) = n
    ELSE 0

MaxRootDeg == 16

\* n/d is the k-th power of a rational
PerfectPower(up, k) ==
    PowCap(2, k) <= up[1] /\ IRoot(up[1], k) # 0 /\ IRoot(up[2], k) # 0

\* the largest k for which n/d is a k-th power
Degree(up) ==
    CHOOSE k \in 1..MaxRootDeg :
       PerfectPower(up, k) /\ \A j \in (k + 1)..MaxRootDeg : ~PerfectPower(up, j)

CanonDeg(up, sg, kk) == << <<IRoot(up[1], kk), IRoot(up[2], kk)>>, R(sg * kk) >>

\* a positive rational r /= 1 as <<b, e>>: r = b^e, b > 1 no perfect power
CanonPow(r) ==
    IF r[1] > r[2] THEN CanonDeg(r, 1, Degree(r))
    ELSE CanonDeg(<<r[2], r[1]>>, -1, Degree(<<r[2], r[1]>>))

RECURSIVE FloorLog2(_)
FloorLog2(n) == IF n < 2 THEN 0 ELSE 1 + FloorLog2(n \div 2)

CeilDiv(n, d) == -((-n) \div d)

LogScale == 1000       \* logarithms are kept in units of 1/1000

\* bounds of 1000 * log2(n/D) for 1 < n/D < 2, from
\* 2x/(2+x) <= ln(1+x) <= x(6+x)/(6+4x), x <= log2(1+x) <= 1
\* and 75/52 < 1/ln(2) < 101/70
LogLow(n, D) ==
    Max((((2 * (n - D) * LogScale) \div (n + D)) * 75) \div 52,
        ((n - D) * LogScale) \div D)

LogHigh(n, D) ==
    Min(CeilDiv((IF n <= 300
                 THEN CeilDiv((n - D) * (n + 5 * D) * LogScale, D * (4 * n + 2 * D))
                 ELSE CeilDiv((n - D) * LogScale, D)) * 101, 70),
        LogScale)

LogBoundsFrom(n, D, base) ==
    IF n = D THEN <<base, base>>
    ELSE <<base + LogLow(n, D), base + LogHigh(n, D)>>

LogBoundsAt(n, d, j) == LogBoundsFrom(n, d * PowCap(2, j), j * LogScale)

\* <<lo, hi>> with lo <= 1000 * log2(b) <= hi, for a rational b > 1
LogBounds(b) == LogBoundsAt(b[1], b[2], FloorLog2(b[1] \div b[2]))

LogTimes(lb, e) ==
    IF e[1] >= 0
    THEN <<(e[1] * lb[1]) \div e[2], CeilDiv(e[1] * lb[2], e[2])>>
    ELSE <<(e[1] * lb[2]) \div e[2], CeilDiv(e[1] * lb[1], e[2])>>

\* <<lo, hi>> with lo <= 1000 * log2(b^e) <= hi
LogPow(b, e) == LogTimes(LogBounds(b), e)

---------------------------------------------------------------------------
(* Values of Python's float / complex arithmetic *)

NoBase == R(2)

Real(q) == [cls |-> "fin", a |-> q, k |-> R(0), b |-> NoBase, e |-> R(0), t |-> R(0)]

Inf == [cls |-> "inf"]

NegInf == [cls |-> "-inf"]

NaN == [cls |-> "nan"]

Overflow == [cls |-> "OverflowError"]

\* a value the representation cannot hold; no call of the model produces one
Unrep == [cls |-> "otro"]

Special(x) == x.cls \in {"OverflowError", "otro"}

IsFin(x) == x.cls = "fin"

IsZero(x) == IsFin(x) /\ x.a = R(0) /\ x.k = R(0)

\* b^e * cis(pi*t) can be written out as a rational
Collapsible(b, e, t) ==
    /\ t \in {R(0), R(1)}
    /\ IsInt(e)
    /\ PowCap(b[1], Abs(e[1])) <= CollapseMax
    /\ PowCap(b[2], Abs(e[1])) <= CollapseMax

Written(n, d, up) == Real(IF up THEN RNorm(n, d) ELSE RNorm(d, n))

\* the value b^e * cis(pi*t), b > 1 canonical
FromPolar(b, e, t) ==
    IF e = R(0) /\ t = R(0) THEN Real(R(1))
    ELSE IF e = R(0) /\ t = R(1) THEN Real(R(-1))
    ELSE IF Collapsible(b, e, t)
    THEN Written((IF t = R(1) THEN -1 ELSE 1) * PowCap(b[1], Abs(e[1])),
                 PowCap(b[2], Abs(e[1])), e[1] > 0)
    ELSE [cls |-> "fin", a |-> R(0), k |-> R(1), b |-> b, e |-> e, t |-> t]

\* a non-zero value that is a rational or a bare power
IsPure(x) == (x.k = R(0) /\ x.a # R(0)) \/ (x.k = R(1) /\ x.a = R(0))

PolarOf(c, t) == <<c[1], c[2], t>>

\* a pure value as <<b, e, t>>
ToPolar(x) ==
    CASE x.k = R(0) /\ RAbs(x.a) = R(1) ->
             <<NoBase, R(0), IF x.a[1] < 0 THEN R(1) ELSE R(0)>>
      [] x.k = R(0) /\ RAbs(x.a) # R(1) ->
             PolarOf(CanonPow(RAbs(x.a)), IF x.a[1] < 0 THEN R(1) ELSE R(0))
      [] x.k # R(0) -> <<x.b, x.e, x.t>>

WrapTo(r, d) == IF r > d THEN RNorm(r - 2 * d, d) ELSE RNorm(r, d)

\* the angle t*m brought back into (-1, 1]
WrapAngle(t, m) == WrapTo((t[1] * m) % (2 * t[2]), t[2])

AbsorbBits == 54       \* a term 2^54 times smaller than the other is lost

OverflowBits == 1024   \* 2^1024 is beyond the largest double

\* a2 + k * P with |a2| = |k|, where lp bounds 1000 * log2 |P|
Absorb(x, a2, lp) ==
    IF lp[1] >= AbsorbBits * LogScale THEN [x EXCEPT !.a = R(0)]
    ELSE IF lp[2] <= -(AbsorbBits * LogScale) THEN Real(a2)
    ELSE IF lp[2] < AbsorbBits * LogScale /\ lp[1] > -(AbsorbBits * LogScale)
    THEN [x EXCEPT !.a = a2]
    ELSE Unrep

AddPower(x, a2) ==
    IF a2 = R(0) \/ RAbs(x.k) # RAbs(a2) THEN [x EXCEPT !.a = a2]
    ELSE Absorb(x, a2, LogPow(x.b, x.e))

\* x + q  (float + number): exact, except that of two terms of equal
\* coefficient the one that is 2^54 times smaller is lost
FAdd(x, q) ==
    CASE Special(x) -> x
      [] x.cls \in {"inf", "-inf", "nan"} -> x
      [] IsFin(x) ->
           IF x.k = R(0) THEN Real(RAdd(x.a, q)) ELSE AddPower(x, RAdd(x.a, q))

\* x / m  (float / int)
FDivInt(x, m) ==
    CASE Special(x) -> x
      [] x.cls \in {"inf", "-inf", "nan"} -> x
      [] IsFin(x) -> [x EXCEPT !.a = RDivInt(x.a, m), !.k = RDivInt(x.k, m)]

\* m * x  (int * float)
FMulInt(m, x) ==
    CASE Special(x) -> x
      [] x.cls \in {"inf", "-inf", "nan"} -> x
      [] IsFin(x) -> [x EXCEPT !.a = RMul(R(m), x.a), !.k = RMul(R(m), x.k)]

PowRange(b, e2, t2, lp) ==
    IF lp[1] >= OverflowBits * LogScale THEN Overflow
    ELSE IF lp[2] < OverflowBits * LogScale THEN FromPolar(b, e2, t2)
    ELSE Unrep

PowChecked(b, e2, t2) == PowRange(b, e2, t2, LogPow(b, e2))

PowPolar(p, m) == PowChecked(p[1], RMul(p[2], R(m)), WrapAngle(p[3], m))

\* x ** m  (float ** int, m >= 1); OverflowError from 2^1024 on
FPowInt(x, m) ==
    CASE Special(x) -> x
      [] x.cls \in {"inf", "nan"} -> x
      [] x.cls = "-inf" -> IF m % 2 = 0 THEN Inf ELSE NegInf
      [] IsZero(x) -> x
      [] IsFin(x) /\ ~IsZero(x) ->
           IF IsPure(x) THEN PowPolar(ToPolar(x), m) ELSE Unrep

RootPolar(p, m) == FromPolar(p[1], RDivInt(p[2], m), RDivInt(p[3], m))

\* x ** (1 / m)  (float ** float): the principal root, complex for a
\* negative base and m > 1.  (A complex base that lies on the negative real
\* axis up to rounding would have an angle of either sign; the rates of
\* this model produce none.)
FPowInv(x, m) ==
    CASE Special(x) -> x
      [] x.cls \in {"inf", "nan"} -> x
      [] x.cls = "-inf" -> IF m = 1 THEN NegInf ELSE Inf
      [] IsZero(x) -> x
      [] IsFin(x) /\ ~IsZero(x) ->
           IF IsPure(x) THEN RootPolar(ToPolar(x), m) ELSE Unrep

---------------------------------------------------------------------------
(* Text *)

Whitespace == {" ", "\t", "\n"}

UpperOf == [c \in {"a", "b", "d", "e", "m", "n", "q", "s", "t", "x", "i", "f", "y"} |->
              CASE c = "a" -> "A" [] c = "b" -> "B" [] c = "d" -> "D"
                [] c = "e" -> "E" [] c = "m" -> "M" [] c = "n" -> "N"
                [] c = "q" -> "Q" [] c = "s" -> "S" [] c = "t" -> "T"
                [] c = "x" -> "X" [] c = "i" -> "I" [] c = "f" -> "F"
                [] c = "y" -> "Y"]

UpperChar(c) == IF c \in DOMAIN UpperOf THEN UpperOf[c] ELSE c

LowerChar(c) ==
    IF \E l \in DOMAIN UpperOf : UpperOf[l] = c
    THEN CHOOSE l \in DOMAIN UpperOf : UpperOf[l] = c
    ELSE c

\* str.upper() and str.lower()
Upper(s) == [i \in 1..Len(s) |-> UpperChar(s[i])]

Lower(s) == [i \in 1..Len(s) |-> LowerChar(s[i])]

\* str.strip()
Strip(s) ==
    LET idx == {i \in 1..Len(s) : s[i] \notin Whitespace}
    IN  IF idx = {} THEN <<>>
        ELSE LET lo == CHOOSE i \in idx : \A j \in idx : i <= j
                 hi == CHOOSE i \in idx : \A j \in idx : j <= i
             IN  SubSeq(s, lo, hi)

\* str.replace(",", ".")
ReplaceComma(s) == [i \in 1..Len(s) |-> IF s[i] = "," THEN "." ELSE s[i]]

\* code points of the characters of the code table
Ord == [c \in {"A", "B", "D", "E", "M", "N", "Q", "S", "T"} |->
          CASE c = "A" -> 65 [] c = "B" -> 66 [] c = "D" -> 68
            [] c = "E" -> 69 [] c = "M" -> 77 [] c = "N" -> 78
            [] c = "Q" -> 81 [] c = "S" -> 83 [] c = "T" -> 84]

\* s < u in the order of Python strings
RECURSIVE StrLess(_, _)
StrLess(s, u) ==
    IF u = <<>> THEN FALSE
    ELSE IF s = <<>> THEN TRUE
    ELSE IF Ord[Head(s)] # Ord[Head(u)] THEN Ord[Head(s)] < Ord[Head(u)]
    ELSE StrLess(Tail(s), Tail(u))

\* sorted(S) for a set of strings
RECURSIVE Sorted(_)
Sorted(S) ==
    IF S = {} THEN <<>>
    ELSE LET m == CHOOSE x \in S : \A y \in S \ {x} : StrLess(x, y)
         IN  <<m>> \o Sorted(S \ {m})

---------------------------------------------------------------------------
(* The tables *)

\* the table with the fortnight taken for two weeks
PERIODOS_quincena_26 ==
    [p \in {"A", "S", "T", "B", "Q", "M", "SM", "D"} |->
       CASE p = "A" -> 1 [] p = "S" -> 2 [] p = "T" -> 4 [] p = "B" -> 6
         [] p = "Q" -> 26 [] p = "M" -> 12 [] p = "SM" -> 52 [] p = "D" -> 365]

PERIODOS ==
    [p \in {"A", "S", "T", "B", "Q", "M", "SM", "D"} |->
       CASE p = "A" -> 1 [] p = "S" -> 2 [] p = "T" -> 4 [] p = "B" -> 6
         [] p = "Q" -> 24 [] p = "M" -> 12 [] p = "SM" -> 52 [] p = "D" -> 365]

VALIDOS ==
    (<<"E", "A">> :> <<"E", "A">>) @@ (<<"E", "S">> :> <<"E", "S">>) @@
    (<<"E", "T">> :> <<"E", "T">>) @@ (<<"E", "Q">> :> <<"E", "Q">>) @@
    (<<"E", "B">> :> <<"E", "B">>) @@
    (<<"E", "M">> :> <<"E", "M">>) @@ (<<"E", "S", "M">> :> <<"E", "SM">>) @@
    (<<"E", "D">> :> <<"E", "D">>) @@
    (<<"N", "A">> :> <<"N", "A">>) @@ (<<"N", "S">> :> <<"N", "S">>) @@
    (<<"N", "T">> :> <<"N", "T">>) @@ (<<"N", "Q">> :> <<"N", "Q">>) @@
    (<<"N", "M">> :> <<"N", "M">>) @@ (<<"N", "S", "M">> :> <<"N", "SM">>) @@
    (<<"N", "D">> :> <<"N", "D">>) @@ (<<"N", "B">> :> <<"N", "B">>)

Tasa(v, tipo, periodo) == [valor |-> v, tipo |-> tipo, periodo |-> periodo]

---------------------------------------------------------------------------
(* The engine *)

Ok(v) == [tag |-> "ok", val |-> v]

\* lines 68-69: the two spellings the code rewrites
Esm(c) == IF Lower(c) = <<"e", "s", "m">> THEN <<"E", "S", "M">> ELSE c

Nsm(c) == IF Lower(c) = <<"n", "s", "m">> THEN <<"N", "S", "M">> ELSE c

\* lines 71-75: the lookup of the normalized code c; the error names codigo
Buscar(codigo, c) ==
    IF c \notin DOMAIN VALIDOS
    THEN [tag |-> "ValueError", kind |-> "Codigo no reconocido",
          texto |-> codigo, validos |-> Sorted(DOMAIN VALIDOS)]
    ELSE Ok(VALIDOS[c])

\* parse_codigo reporting the normalized code instead of the one given
parse_codigo_texto_normalizado(codigo) ==
    Buscar(Upper(Strip(codigo)), Nsm(Esm(Upper(Strip(codigo)))))

\* parse_codigo without the call of upper()
parse_codigo_sin_upper(codigo) == Buscar(codigo, Nsm(Esm(Strip(codigo))))

parse_codigo(codigo) == Buscar(codigo, Nsm(Esm(Upper(Strip(codigo)))))

DigitVal == [c \in {"0", "1", "2", "3", "4", "5", "6", "7", "8", "9"} |->
               CASE c = "0" -> 0 [] c = "1" -> 1 [] c = "2" -> 2 [] c = "3" -> 3
                 [] c = "4" -> 4 [] c = "5" -> 5 [] c = "6" -> 6 [] c = "7" -> 7
                 [] c = "8" -> 8 [] c = "9" -> 9]

IsDigits(s) == \A i \in 1..Len(s) : s[i] \in DOMAIN DigitVal

RECURSIVE DigitsVal(_)
DigitsVal(s) ==
    IF s = <<>> THEN 0 ELSE 10 * DigitsVal(SubSeq(s, 1, Len(s) - 1)) + DigitVal[s[Len(s)]]

RECURSIVE NumDigits(_)
NumDigits(n) == IF n < 10 THEN 1 ELSE 1 + NumDigits(n \div 10)

MaxDecimalTop == 309    \* 10^309 is beyond the largest double
MinDecimalTop == -324   \* below 10^-324 a double is zero

\* the double nearest to sg * mant * 10^ex, mant /= 0; the numerals of the
\* model have exponents from -6 to 3
Scaled(sg, mant, ex, top) ==
    IF top > MaxDecimalTop THEN (IF sg < 0 THEN NegInf ELSE Inf)
    ELSE IF top <= MinDecimalTop THEN Real(R(0))
    ELSE IF ex >= 0 /\ ex <= 3 THEN Real(R(sg * mant * PowCap(10, ex)))
    ELSE IF ex < 0 /\ ex >= -6 THEN Real(RNorm(sg * mant, PowCap(10, -ex)))
    ELSE Unrep

\* the double nearest to sg * mant * 10^ex
DecimalValue(sg, mant, ex) ==
    IF mant = 0 THEN Real(R(0)) ELSE Scaled(sg, mant, ex, NumDigits(mant) + ex)

\* the position of the first c in s, Len(s) + 1 when there is none
FirstIndex(s, c) ==
    IF \E i \in 1..Len(s) : s[i] = c
    THEN CHOOSE i \in 1..Len(s) : s[i] = c /\ \A j \in 1..(i - 1) : s[j] # c
    ELSE Len(s) + 1

\* an exponent: its digits edig with the sign sg
ExpDigits(sg, edig) ==
    [ok |-> IsDigits(edig) /\ Len(edig) >= 1,
     ev |-> IF IsDigits(edig) THEN sg * DigitsVal(edig) ELSE 0]

\* the text after the "e", when there is one
ExpOf(expo, has) ==
    IF ~has THEN [ok |-> TRUE, ev |-> 0]
    ELSE IF expo # <<>> /\ expo[1] \in {"-", "+"}
    THEN ExpDigits(IF expo[1] = "-" THEN -1 ELSE 1, Tail(expo))
    ELSE ExpDigits(1, expo)

\* integer part ip, fraction fp and exponent ex of a decimal numeral
FloatValue(sg, ip, fp, ex) ==
    IF IsDigits(ip) /\ IsDigits(fp) /\ Len(ip) + Len(fp) >= 1 /\ ex.ok
    THEN Ok(DecimalValue(sg, DigitsVal(ip \o fp), ex.ev - Len(fp)))
    ELSE [tag |-> "ValueError"]

FloatDigits(sg, man, di, ex) ==
    FloatValue(sg, SubSeq(man, 1, di - 1), SubSeq(man, di + 1, Len(man)), ex)

FloatMantissa(sg, man, ex) == FloatDigits(sg, man, FirstIndex(man, "."), ex)

FloatSplit(sg, low, ei) ==
    FloatMantissa(sg, SubSeq(low, 1, ei - 1),
                  ExpOf(SubSeq(low, ei + 1, Len(low)), ei <= Len(low)))

\* an unsigned literal in lower case
FloatBody(sg, low) ==
    IF low \in {<<"i", "n", "f">>, <<"i", "n", "f", "i", "n", "i", "t", "y">>}
    THEN Ok(IF sg < 0 THEN NegInf ELSE Inf)
    ELSE IF low = <<"n", "a", "n">> THEN Ok(NaN)
    ELSE FloatSplit(sg, low, FirstIndex(low, "e"))

FloatSigned(u) ==
    IF u # <<>> /\ u[1] \in {"-", "+"}
    THEN FloatBody(IF u[1] = "-" THEN -1 ELSE 1, Lower(Tail(u)))
    ELSE FloatBody(1, Lower(u))

\* float(s) for a string s
PyFloat(s) == FloatSigned(Strip(s))

EndsPercent(s) == s # <<>> /\ s[Len(s)] = "%"

\* line 82 without the division by 100
Entre100_sin_dividir(f) == f

\* line 82: float(s[:-1]) / 100
Entre100(f) == IF f.tag = "ok" THEN Ok(FDivInt(f.val, 100)) ELSE f

\* lines 84-85: a ValueError of float() is raised again with the text s
Relanzar(s, f) ==
    IF f.tag = "ValueError"
    THEN [tag |-> "ValueError", kind |-> "Formato invalido de tasa", texto |-> s]
    ELSE f

\* lines 80-85, s being the text after line 79
TasaNormalizada(s) ==
    IF EndsPercent(s)
    THEN Relanzar(s, Entre100(PyFloat(SubSeq(s, 1, Len(s) - 1))))
    ELSE Relanzar(s, PyFloat(s))

parse_tasa(s) == TasaNormalizada(ReplaceComma(Strip(s)))

\* (1 + x) ** m - 1
Componer(x, m) == FAdd(FPowInt(FAdd(x, R(1)), m), R(-1))

\* (1 + x) ** (1 / m) - 1
Descomponer(x, m) == FAdd(FPowInv(FAdd(x, R(1)), m), R(-1))

\* a_EA compounding a nominal rate without dividing it by the frequency
a_EA_sin_dividir(t) == Componer(t.valor, PERIODOS[t.periodo])

a_EA(t) ==
    IF t.tipo = "E"
    THEN Componer(t.valor, PERIODOS[t.periodo])
    ELSE Componer(FDivInt(t.valor, PERIODOS[t.periodo]), PERIODOS[t.periodo])

\* desde_EA raising to m instead of 1 / m
desde_EA_exponente_m(EA, tipo, periodo) ==
    IF tipo = "E"
    THEN Componer(EA, PERIODOS[periodo])
    ELSE FMulInt(PERIODOS[periodo], Componer(EA, PERIODOS[periodo]))

\* desde_EA with the nominal branch as m * (1 + EA) ** (1 / m) - 1
desde_EA_sin_parentesis(EA, tipo, periodo) ==
    IF tipo = "E"
    THEN Descomponer(EA, PERIODOS[periodo])
    ELSE FAdd(FMulInt(PERIODOS[periodo],
                      FPowInv(FAdd(EA, R(1)), PERIODOS[periodo])), R(-1))

desde_EA(EA, tipo, periodo) ==
    IF tipo = "E"
    THEN Descomponer(EA, PERIODOS[periodo])
    ELSE FMulInt(PERIODOS[periodo], Descomponer(EA, PERIODOS[periodo]))

\* the value returned, or the OverflowError of ** passed on
Devolver(r) == IF r.cls = "OverflowError" THEN [tag |-> "OverflowError"] ELSE Ok(r)

\* lines 110-113, origen and dest being the outcomes of lines 108-109
Convertido(v, origen, dest) ==
    IF origen.tag # "ok" THEN origen
    ELSE IF dest.tag # "ok" THEN dest
    ELSE Devolver(desde_EA(a_EA(Tasa(v, origen.val[1], origen.val[2])),
                           dest.val[1], dest.val[2]))

convertir(v, d, h) == Convertido(v, parse_codigo(d), parse_codigo(h))

---------------------------------------------------------------------------
(* Calls of convertir, and the conversion back *)

Rates == {Real(RNorm(-9, 1)), Real(RNorm(-3, 2)), Real(RNorm(-1, 1)),
          Real(RNorm(-1, 2)), Real(R(0)), Real(RNorm(1, 100)),
          Real(RNorm(6, 25)), Real(RNorm(1, 2)), Real(R(1)), Real(R(3)),
          Real(R(7))}

CodeTexts == DOMAIN VALIDOS \cup
             { <<"e", "a">>, <<" ", "n", "S", "m">>, <<"X", "X">>,
               <<" ", "x", "x", " ">>, <<>>, <<"E", " ", "A">> }

None == [tag |-> "none"]

InitConv ==
    /\ pc = "llamar"
    /\ texto = <<>>
    /\ canon = <<>>
    /\ valor \in Rates
    /\ de \in CodeTexts
    /\ a \in CodeTexts
    /\ resultado = None
    /\ vuelta = None
    /\ impreso = "nada"
    /\ seguir = <<>>

Convertir ==
    /\ pc = "llamar"
    /\ resultado' = convertir(valor, de, a)
    /\ pc' = "convertido"
    /\ UNCHANGED <<texto, canon, valor, de, a, vuelta, impreso, seguir>>

Volver ==
    /\ pc = "convertido"
    /\ resultado.tag = "ok"
    /\ vuelta' = convertir(resultado.val, a, de)
    /\ pc' = "devuelto"
    /\ UNCHANGED <<texto, canon, valor, de, a, resultado, impreso, seguir>>

NextConv == Convertir \/ Volver

SpecConv == InitConv /\ [][NextConv]_vars

---------------------------------------------------------------------------
(* Calls of parse_codigo *)

\* all texts over the alphabet S of length at most n
RECURSIVE TextsUpTo(_, _)
TextsUpTo(S, n) ==
    IF n = 0 THEN {<<>>}
    ELSE LET shorter == TextsUpTo(S, n - 1)
         IN  shorter \cup {Append(u, c) : u \in shorter, c \in S}

Pads == {<<>>, <<" ">>, <<"\t">>, <<"\n", " ">>}

\* the code c with the letters at the positions of low in lower case
Variant(c, low, lead, trail) ==
    lead \o [i \in 1..Len(c) |-> IF i \in low THEN LowerChar(c[i]) ELSE c[i]] \o trail

BasuraAlphabet == {"E", "A", "S", "M", "e", "x", " "}

InitCodigo ==
    /\ pc = "llamar"
    /\ \/ \E c \in DOMAIN VALIDOS, lead \in Pads, trail \in Pads :
            \E low \in SUBSET (1..Len(c)) :
               /\ canon = c
               /\ texto = Variant(c, low, lead, trail)
       \/ /\ canon = <<>>
          /\ texto \in TextsUpTo(BasuraAlphabet, MaxBasura)
    /\ valor = None
    /\ de = <<>>
    /\ a = <<>>
    /\ resultado = None
    /\ vuelta = None
    /\ impreso = "nada"
    /\ seguir = <<>>

ParseCodigo ==
    /\ pc = "llamar"
    /\ resultado' = parse_codigo(texto)
    /\ pc' = "hecho"
    /\ UNCHANGED <<texto, canon, valor, de, a, vuelta, impreso, seguir>>

NextCodigo == ParseCodigo

SpecCodigo == InitCodigo /\ [][NextCodigo]_vars

---------------------------------------------------------------------------
(* Calls of parse_tasa *)

TasaAlphabet == {"0", "2", "4", ".", ",", "%", " "}

TasaEspeciales ==
    { <<"i", "n", "f">>, <<"-", "i", "n", "f">>, <<"I", "n", "f", "%">>,
      <<" ", "i", "n", "f", "i", "n", "i", "t", "y">>, <<"n", "a", "n">>,
      <<"N", "a", "N", "%">>, <<"2", "e", "9", "9", "9">>,
      <<"2", "e", "9", "9", "9", "%">>, <<"2", "e", "-", "9", "9", "9">>,
      <<"2", "e", "2">>, <<"2", "4", "e", "-", "2">>, <<"+", "2", "4", "%">>,
      <<"-", "2">>, <<"-", "2", "%">>, <<"-", "0", ",", "2", "4">>,
      <<"-", ".", "4", " ">>, <<"-">>, <<"a", "b", "c">>, <<" ", "0", ",", "2", "x", " ">>, <<"2", "e">>,
      <<"2", "e", "2", "e", "2">> }

InitTasa ==
    /\ pc = "llamar"
    /\ texto \in TextsUpTo(TasaAlphabet, MaxTasaLen) \cup TasaEspeciales
    /\ canon = <<>>
    /\ valor = None
    /\ de = <<>>
    /\ a = <<>>
    /\ resultado = None
    /\ vuelta = None
    /\ impreso = "nada"
    /\ seguir = <<>>

ParseTasa ==
    /\ pc = "llamar"
    /\ resultado' = parse_tasa(texto)
    /\ pc' = "hecho"
    /\ UNCHANGED <<texto, canon, valor, de, a, vuelta, impreso, seguir>>

NextTasa == ParseTasa

SpecTasa == InitTasa /\ [][NextTasa]_vars

---------------------------------------------------------------------------
(* entrada_interactiva: one action per line read from the keyboard *)

LoopTasas == { <<"2", "4", "%">>, <<"0", ",", "2", "4">>, <<" ", "7">>,
               <<"-", "2">>, <<"x">>, <<>>, <<"i", "n", "f">> }

LoopCodigos == { <<"n", "m">>, <<"E", "A">>, <<" ", "e", "d">>, <<"e", "s">>,
                 <<"x", "x">> }

LoopRespuestas == { <<"s", "i">>, <<" ", "S", "I">>, <<"n", "o">>, <<>> }

Si == <<"s", "i">>

InitLoop ==
    /\ pc = "tasa"
    /\ texto = <<>>
    /\ canon = <<>>
    /\ valor = None
    /\ de = <<>>
    /\ a = <<>>
    /\ resultado = None
    /\ vuelta = None
    /\ impreso = "cabecera"
    /\ seguir = <<>>

\* lines 127-128; a ValueError is printed (line 143) and the loop starts over
TasaLeida(r) ==
    IF r.tag = "ok"
    THEN /\ valor' = r.val
         /\ impreso' = "nada"
         /\ pc' = "origen"
    ELSE /\ valor' = valor
         /\ impreso' = "error"
         /\ pc' = "tasa"

PedirTasa(t) ==
    /\ pc = "tasa"
    /\ texto' = Strip(t)
    /\ TasaLeida(parse_tasa(Strip(t)))
    /\ UNCHANGED <<canon, de, a, resultado, vuelta, seguir>>

\* line 130
PedirOrigen(c) ==
    /\ pc = "origen"
    /\ de' = Upper(Strip(c))
    /\ impreso' = "nada"
    /\ pc' = "destino"
    /\ UNCHANGED <<texto, canon, valor, a, resultado, vuelta, seguir>>

\* lines 131-134; only ValueError is caught (line 142)
Convertida(r) ==
    /\ resultado' = r
    /\ CASE r.tag = "ok" -> impreso' = "resultado" /\ pc' = "seguir"
         [] r.tag = "ValueError" -> impreso' = "error" /\ pc' = "tasa"
         [] r.tag = "OverflowError" -> impreso' = "nada" /\ pc' = "abortado"

PedirDestino(c) ==
    /\ pc = "destino"
    /\ a' = Upper(Strip(c))
    /\ Convertida(convertir(valor, de, Upper(Strip(c))))
    /\ UNCHANGED <<texto, canon, valor, de, vuelta, seguir>>

\* lines 137-140
PedirSeguir(r) ==
    /\ pc = "seguir"
    /\ seguir' = Lower(Strip(r))
    /\ IF Lower(Strip(r)) # Si
       THEN impreso' = "gracias" /\ pc' = "fin"
       ELSE impreso' = "nada" /\ pc' = "tasa"
    /\ UNCHANGED <<texto, canon, valor, de, a, resultado, vuelta>>

entrada_interactiva ==
    \/ \E t \in LoopTasas : PedirTasa(t)
    \/ \E c \in LoopCodigos : PedirOrigen(c)
    \/ \E c \in LoopCodigos : PedirDestino(c)
    \/ \E r \in LoopRespuestas : PedirSeguir(r)

NextLoop == entrada_interactiva

SpecLoop == InitLoop /\ [][NextLoop]_vars

---------------------------------------------------------------------------
(* The taxonomy and the formulas as the specification states them *)

TaxonomyCodes ==
    { <<"E", "A">>, <<"E", "S">>, <<"E", "T">>, <<"E", "Q">>, <<"E", "B">>,
      <<"E", "M">>, <<"E", "S", "M">>, <<"E", "D">>,
      <<"N", "A">>, <<"N", "S">>, <<"N", "T">>, <<"N", "Q">>, <<"N", "M">>,
      <<"N", "S", "M">>, <<"N", "D">>, <<"N", "B">> }

SortedCodes ==
    << <<"E", "A">>, <<"E", "B">>, <<"E", "D">>, <<"E", "M">>, <<"E", "Q">>,
       <<"E", "S">>, <<"E", "S", "M">>, <<"E", "T">>,
       <<"N", "A">>, <<"N", "B">>, <<"N", "D">>, <<"N", "M">>, <<"N", "Q">>,
       <<"N", "S">>, <<"N", "S", "M">>, <<"N", "T">> >>

Normal(c) == Upper(Strip(c))

Recognized(c) == Normal(c) \in TaxonomyCodes

KindOf(c) == Normal(c)[1]

PeriodOf(c) == IF Len(Normal(c)) = 3 THEN "SM" ELSE Normal(c)[2]

Frequency(p) ==
    CASE p = "A" -> 1 [] p = "S" -> 2 [] p = "T" -> 4 [] p = "B" -> 6
      [] p = "Q" -> 24 [] p = "M" -> 12 [] p = "SM" -> 52 [] p = "D" -> 365

FrequencyOf(c) == Frequency(PeriodOf(c))

\* stage 1:  EA = (1 + v)^m - 1      or  EA = (1 + v/m)^m - 1
Stage1(kind, m, v) ==
    FAdd(FPowInt(FAdd(IF kind = "E" THEN v ELSE FDivInt(v, m), R(1)), m), R(-1))

\* the periodic rate  (1 + EA)^(1/m) - 1
Periodic(m, EA) == FAdd(FPowInv(FAdd(EA, R(1)), m), R(-1))

\* stage 2:  the periodic rate, times m for a nominal target
Stage2(kind, m, EA) ==
    IF kind = "E" THEN Periodic(m, EA) ELSE FMulInt(m, Periodic(m, EA))

\* 0 <= v <= 1
Ordinary(v) == IsFin(v) /\ v.k = R(0) /\ v.a[1] >= 0 /\ v.a[1] <= v.a[2]

EA_code == <<"E", "A">>

NM_code == <<"N", "M">>

\* lo <= 10^6 * (n/d)^e <= hi, by e multiplications rounded down and up
RECURSIVE PowEnclosure(_, _, _, _)
PowEnclosure(b, e, lo, hi) ==
    IF e = 0 THEN <<lo, hi>>
    ELSE PowEnclosure(b, e - 1, (lo * b[1]) \div b[2], CeilDiv(hi * b[1], b[2]))

\* an enclosure, in millionths, of a value -1 + b^e with a natural e
Less1(p) == <<p[1] - 1000000, p[2] - 1000000>>

Millionths(x) == Less1(PowEnclosure(x.b, x.e[1], 1000000, 1000000))

---------------------------------------------------------------------------
(* Claims *)

\* C1, as stated: for any two valid codes X and Y and any rate v,
\* convertir(convertir(v, X, Y), Y, X) gives v again.
C1_RoundTripAnyRate ==
    (Recognized(de) /\ Recognized(a)) =>
        /\ pc = "convertido" => resultado.tag = "ok"
        /\ pc = "devuelto" => vuelta = Ok(valor)

\* C1, amended: for any two valid codes X and Y and any rate v with
\* 0 <= v <= 1, both conversions return a value and
\* convertir(convertir(v, X, Y), Y, X) gives v again.
C1_RoundTrip ==
    (Recognized(de) /\ Recognized(a) /\ Ordinary(valor)) =>
        /\ pc = "convertido" => resultado.tag = "ok"
        /\ pc = "devuelto" => vuelta = Ok(valor)

C1_Witness ==
    /\ pc = "devuelto"
    /\ valor = Real(RNorm(6, 25))
    /\ Normal(de) = NM_code
    /\ Normal(a) = <<"E", "D">>
    /\ resultado.tag = "ok"
    /\ resultado.val # valor
    /\ vuelta = Ok(valor)

\* C2, as stated: for every valid code X and every rate v,
\* convertir(v, X, X) returns v.
C2_IdentityAnyRate ==
    (pc = "convertido" /\ Recognized(de) /\ Normal(a) = Normal(de)) =>
        resultado = Ok(valor)

\* C2, amended: for every valid code X and every rate v with 0 <= v <= 1,
\* convertir(v, X, X) returns v.
C2_Identity ==
    (pc = "convertido" /\ Recognized(de) /\ Normal(a) = Normal(de)
       /\ Ordinary(valor)) =>
        resultado = Ok(valor)

C2_Witness ==
    /\ pc = "convertido"
    /\ Normal(de) = <<"N", "D">>
    /\ a = de
    /\ valor = Real(RNorm(1, 2))
    /\ resultado = Ok(valor)

\* C3: convertir fails with the unrecognized-code error whenever the source
\* or the target code, trimmed and uppercased, is not one of the 16 codes;
\* the error carries the offending code as given, untrimmed, and the sorted
\* list of the 16 codes, and there is no numeric result.
C3_UnrecognizedCode ==
    (pc = "convertido" /\ (~Recognized(de) \/ ~Recognized(a))) =>
        /\ resultado.tag = "ValueError"
        /\ resultado.kind = "Codigo no reconocido"
        /\ resultado.texto = (IF ~Recognized(de) THEN de ELSE a)
        /\ resultado.validos = SortedCodes

C3_Witness ==
    /\ pc = "convertido"
    /\ Recognized(de)
    /\ a = <<" ", "x", "x", " ">>
    /\ resultado.tag = "ValueError"
    /\ resultado.texto = a

\* C4: every case variant of each of the 16 codes, with or without
\* surrounding whitespace, resolves to the (kind, period) pair of the code.
C4_CaseAndWhitespace ==
    (pc = "hecho" /\ canon # <<>>) =>
        /\ canon \in TaxonomyCodes
        /\ resultado = Ok(<<KindOf(canon), PeriodOf(canon)>>)

C4_Witness ==
    /\ pc = "hecho"
    /\ canon = <<"E", "S", "M">>
    /\ texto = <<"\t", "e", "S", "m", "\n", " ">>
    /\ resultado = Ok(<<"E", "SM">>)

C5_Routed(r) ==
    /\ r.cls # "OverflowError" => resultado = Ok(r)
    /\ r.cls = "OverflowError" => resultado.tag = "OverflowError"
    /\ (valor = Real(RNorm(6, 25)) /\ Normal(de) = NM_code
          /\ Normal(a) = EA_code) =>
           /\ resultado.tag = "ok"
           /\ Millionths(resultado.val)[1] >= 268191
           /\ Millionths(resultado.val)[2] <= 268291

\* C5: with both codes resolved, convertir returns stage 2 of stage 1 of
\* the rate, with the table frequency of each period, as a decimal
\* fraction: 0.24 NM to EA is about 0.26824179.
C5_ThroughEffectiveAnnual ==
    (pc = "convertido" /\ Recognized(de) /\ Recognized(a)) =>
        C5_Routed(Stage2(KindOf(a), FrequencyOf(a),
                         Stage1(KindOf(de), FrequencyOf(de), valor)))

C5_Witness ==
    /\ pc = "convertido"
    /\ valor = Real(RNorm(6, 25))
    /\ de = NM_code
    /\ a = EA_code
    /\ resultado.tag = "ok"
    /\ resultado.val.b = <<51, 50>>
    /\ resultado.val.e = R(12)

\* C6: a zero rate converts to exactly zero, for every pair of valid codes.
C6_ZeroRate ==
    (pc = "convertido" /\ Recognized(de) /\ Recognized(a)
       /\ valor = Real(R(0))) =>
        resultado = Ok(Real(R(0)))

C6_Witness ==
    /\ pc = "convertido"
    /\ valor = Real(R(0))
    /\ de = EA_code
    /\ a = NM_code
    /\ resultado = Ok(Real(R(0)))

\* a number written with digits and at most one decimal point
IsNumeral(d) ==
    /\ \A i \in 1..Len(d) : d[i] \in DOMAIN DigitVal \cup {"."}
    /\ \E i \in 1..Len(d) : d[i] \in DOMAIN DigitVal
    /\ Cardinality({i \in 1..Len(d) : d[i] = "."}) <= 1

WithComma(d) == [i \in 1..Len(d) |-> IF d[i] = "." THEN "," ELSE d[i]]

\* C7: for a numeric text d, parse_tasa(d + "%") is parse_tasa(d) / 100,
\* a comma in place of the decimal point changes nothing, and surrounding
\* whitespace is ignored; "24%", "0.24" and "0,24" all give 0.24.
C7_PercentAndComma ==
    (pc = "hecho" /\ IsNumeral(texto)) =>
        /\ resultado.tag = "ok"
        /\ parse_tasa(texto \o <<"%">>) = Ok(FDivInt(resultado.val, 100))
        /\ parse_tasa(WithComma(texto)) = resultado
        /\ \A lead \in Pads, trail \in Pads :
              /\ parse_tasa(lead \o texto \o trail) = resultado
              /\ parse_tasa(lead \o texto \o <<"%">> \o trail)
                   = parse_tasa(texto \o <<"%">>)
        /\ texto = <<"0", ".", "2", "4">> =>
              /\ resultado = Ok(Real(RNorm(6, 25)))
              /\ parse_tasa(<<"2", "4", "%">>) = resultado
              /\ parse_tasa(<<"0", ",", "2", "4">>) = resultado

C7_Witness ==
    /\ pc = "hecho"
    /\ texto = <<"0", ".", "2", "4">>
    /\ resultado = Ok(Real(RNorm(6, 25)))

\* C8: when the text cannot be parsed parse_tasa fails with the
\* invalid-rate-format error, and the error carries the input text exactly
\* as the caller supplied it.
C8_ErrorCarriesInput ==
    (pc = "hecho" /\ resultado.tag = "ValueError") =>
        /\ resultado.kind = "Formato invalido de tasa"
        /\ resultado.texto = texto

\* C9: whenever parse_tasa returns a value, the value is a finite number.
C9_FiniteValue ==
    (pc = "hecho" /\ resultado.tag = "ok") => resultado.val.cls = "fin"

\* C10: in the interactive loop a validation error prints the error and
\* restarts at the rate prompt, printing no result and not asking the
\* repeat question; the loop ends only right after a successful conversion
\* whose repeat answer is not "si", and "si" always starts a new iteration.
C10_LoopDiscipline ==
    [][ /\ impreso' = "error" => pc' = "tasa"
        /\ pc' \in {"fin", "abortado"} =>
              /\ pc = "seguir"
              /\ resultado.tag = "ok"
              /\ seguir' # Si
        /\ (pc = "seguir" /\ seguir' = Si) => pc' = "tasa"
        /\ pc' = "seguir" => (impreso' = "resultado" /\ resultado'.tag = "ok")
      ]_vars

\* no call of convertir or parse_tasa in the model leaves the values the
\* representation holds
Representable ==
    /\ (pc \in {"convertido", "devuelto", "seguir", "fin"} /\ resultado.tag = "ok")
          => resultado.val.cls # "otro"
    /\ vuelta.tag = "ok" => vuelta.val.cls # "otro"
    /\ pc \in {"origen", "destino"} => valor.cls # "otro"

RepresentableTasa ==
    (pc = "hecho" /\ resultado.tag = "ok") => resultado.val.cls # "otro"

=============================================================================
